---- MODULE Spec2Model ----
(***************************************************************************)
(* A model of src/src/shim.cc, the C shim over the V8/node native addon    *)
(* API: Tagged Values (shim_val_t), the native call trampoline (Static),   *)
(* the type test and coercion engine (shim_value_is, shim_value_to), the   *)
(* argument unpacking engine (shim_unpack), the exception bridge, and the  *)
(* weak reference manager (shim_obj_make_weak and friends).                *)
(*                                                                         *)
(* Runtime values (what a v8 handle refers to) are records [k, p, s]:      *)
(* k the kind, p an integer payload, s a string payload.  Numbers carry    *)
(* twice their value in p (so 1.5 is p = 3), and s = "+2^32" adds 2^32 to   *)
(* it (the unsigned reading of a negative int32); a string is either the   *)
(* decimal rendering of a number (s starts with "#", p and the rest of s   *)
(* that number) or the text s.                                             *)
(***************************************************************************)
EXTENDS Integers, Sequences, FiniteSets, TLC

VARIABLES
  pc,        \* where the trampoline is: "idle", "callback", "returned", "crashed"
  argsIn,    \* the runtime values the host passed (args[i]); <<>> before a call
  heap,      \* every shim_val_t: cell -> [handle, type, st, frees]
  ret,       \* sargs.ret: the cell the return slot points to, or NULLPTR
  rvalSet,   \* whether shim_args_set_rval was called in this invocation
  trycatch,  \* ctx_trycatch: [caught, exc]
  host,      \* what the host runtime got back from Static: [kind, val]
  unpacked,  \* the last shim_unpack call: [called, types, ret, dests]
  calls,     \* how many shim calls the callback has made in this invocation
  exited,    \* the end of the last invocation: [called, ok, retLive]
  last,      \* the last Exception Bridge or call-out call: [op, ret, pend, raised, prev]
  isv,       \* the Tagged Value the type-test log below is about: [handle, type]
  isLog,     \* the shim_value_is calls made on isv, oldest first
  converted, \* the last shim_value_to call on isv: [called, val, type, ret, rval, exc]
  prefs,     \* persistent references: id -> [st, baton]
  batons,    \* weak_baton_t allocations: id -> [st, ref, data, cancelled]
  finalized, \* the user weak_cb invocations, in order: <<[ref, data, baton]>>
  works,     \* the work items queued, in order: <<[st, hint, rec, frees, ...]>>
  got,       \* the last property read: [called, op, obj, key, had, ret, rval, crashed]
  setf       \* the last shim_obj_set_funcs call: [called, funcs, ret, vals, props]

callVars == <<pc, argsIn, heap, ret, rvalSet, trycatch, host, unpacked, calls, exited, last>>
isVars == <<isv, isLog, converted>>
weakVars == <<prefs, batons, finalized>>
workVars == <<works>>
getVars == <<got>>
funcVars == <<setf>>
vars == <<pc, argsIn, heap, ret, rvalSet, trycatch, host, unpacked, calls, exited, last, isv, isLog, converted, prefs, batons, finalized, works, got, setf>>

(***************************************************************************)
(* Bounds of the model.                                                    *)
(***************************************************************************)
MaxArgs == 1
MaxCalls == 2
MaxPairs == 2
MaxUnpackArgs == 2
MaxIsCalls == 2
MaxRefs == 2
MaxBatons == 3
MaxWorks == 3
MaxKeys == 3

(***************************************************************************)
(* Runtime values.                                                         *)
(***************************************************************************)
V(k, p, s) == [k |-> k, p |-> p, s |-> s]

Empty == V("empty", 0, "")          \* an empty handle: the NULL Value*
Undefined == V("undefined", 0, "")
Null == V("null", 0, "")
NaN == V("nan", 0, "")
Num(twice) == V("number", twice, "")
Big(twice) == V("number", twice, "+2^32")
NumStr(n) == V("string", n.p, "#" \o n.s)
Str(text) == V("string", 0, text)

ObjectKinds == {"object", "array", "function", "date", "external", "buffer",
                "NumberObject", "StringObject", "BooleanObject",
                "Error", "TypeError", "RangeError"}

\* v8::Value::IsObject, IsString, IsNumber, ...
IsObject(h) == h.k \in ObjectKinds
IsString(h) == h.k = "string"
IsNumber(h) == h.k \in {"number", "nan"}
\* (every payload p of the model is within 32 bits, so a whole number's
\* value p / 2 is within int32 and, offset by 2^32, within uint32)
IsWhole(h) == h.k = "number" /\ h.p % 2 = 0
IsInt32(h) == IsWhole(h) /\ h.s = ""
IsUint32(h) == IsWhole(h) /\ (IF h.s = "" THEN h.p >= 0 ELSE h.p < 0)

\* The values a script passes as arguments and receivers in this model.
ArgValues == {Undefined, Null, V("boolean", 1, ""), Num(84), Num(-2), Num(3),
              Str("s"), V("object", 0, ""), V("array", 0, ""),
              V("function", 0, "")}
SelfValues == {V("object", 0, "")}

(***************************************************************************)
(* shim_type_t, by the names shim_type_str gives.                          *)
(***************************************************************************)
Types == {"SHIM_TYPE_UNKNOWN", "SHIM_TYPE_UNDEFINED", "SHIM_TYPE_NULL",
          "SHIM_TYPE_BOOL", "SHIM_TYPE_DATE", "SHIM_TYPE_ARRAY",
          "SHIM_TYPE_OBJECT", "SHIM_TYPE_INTEGER", "SHIM_TYPE_INT32",
          "SHIM_TYPE_UINT32", "SHIM_TYPE_NUMBER", "SHIM_TYPE_EXTERNAL",
          "SHIM_TYPE_FUNCTION", "SHIM_TYPE_STRING", "SHIM_TYPE_BUFFER"}

\* The switch of shim_value_is: the runtime type test made for each type.
RuntimeTest(h, type) ==
  CASE type = "SHIM_TYPE_OBJECT" -> IsObject(h)
    [] type = "SHIM_TYPE_STRING" -> IsString(h)
    [] type = "SHIM_TYPE_NUMBER" -> IsNumber(h)
    [] type = "SHIM_TYPE_INTEGER" -> IsNumber(h)
    [] type = "SHIM_TYPE_INT32" -> IsInt32(h)
    [] type = "SHIM_TYPE_UINT32" -> IsUint32(h)
    [] type = "SHIM_TYPE_ARRAY" -> h.k = "array"
    [] type = "SHIM_TYPE_BOOL" -> h.k = "boolean"
    [] type = "SHIM_TYPE_UNDEFINED" -> h.k = "undefined"
    [] type = "SHIM_TYPE_NULL" -> h.k = "null"
    [] type = "SHIM_TYPE_EXTERNAL" -> h.k = "external"
    [] type = "SHIM_TYPE_DATE" -> h.k = "date"
    [] type = "SHIM_TYPE_FUNCTION" -> h.k = "function"
    [] type = "SHIM_TYPE_BUFFER" -> h.k = "buffer"
    [] OTHER -> FALSE

\* (a variant of the tag update that caches nothing)
IsCacheNever(old, type, r) == old

\* The tag shim_value_is leaves: the tested type once the test succeeded.
IsCache(old, type, r) == IF r THEN type ELSE old

\* Whether shim_value_is(val, type) reads through val's handle.
IsDerefs(val, type) == val.type # type /\ type # "SHIM_TYPE_UNKNOWN"

\* shim_value_is on a Tagged Value [handle, type]: the result, the tag it
\* leaves, and the number of runtime type tests it made.
shim_value_is(val, type) ==
  IF val.type = type
  THEN [ret |-> TRUE, type |-> val.type, tests |-> 0]
  ELSE LET r == RuntimeTest(val.handle, type)
       IN [ret |-> r,
           type |-> IsCache(val.type, type, r),
           tests |-> IF type = "SHIM_TYPE_UNKNOWN" THEN 0 ELSE 1]

(***************************************************************************)
(* The v8 coercions shim_value_to applies.  ToObject of undefined or null  *)
(* throws a TypeError and yields an empty handle; none of the others       *)
(* throws on the values of this model.                                     *)
(***************************************************************************)
Trunc(twice) == IF twice >= 0 THEN twice \div 2 ELSE -((-twice) \div 2)

ToBoolean(h) ==
  CASE h.k \in {"undefined", "null", "nan"} -> V("boolean", 0, "")
    [] h.k = "boolean" -> h
    [] h.k = "number" -> V("boolean", IF h.p = 0 THEN 0 ELSE 1, "")
    [] h.k = "string" -> V("boolean", IF h.s = "" THEN 0 ELSE 1, "")
    [] OTHER -> V("boolean", 1, "")

ToObject(h) ==
  CASE h.k \in {"undefined", "null"} -> Empty
    [] h.k = "boolean" -> V("BooleanObject", h.p, "")
    [] h.k = "number" -> V("NumberObject", h.p, h.s)
    [] h.k = "nan" -> V("NumberObject", 0, "nan")
    [] h.k = "string" -> V("StringObject", h.p, h.s)
    [] OTHER -> h

ToObjectThrows(h) == h.k \in {"undefined", "null"}

ToStringValue(h) ==
  CASE h.k = "undefined" -> Str("undefined")
    [] h.k = "null" -> Str("null")
    [] h.k = "boolean" -> Str(IF h.p = 0 THEN "false" ELSE "true")
    [] h.k = "number" -> NumStr(h)
    [] h.k = "nan" -> Str("NaN")
    [] OTHER -> h

StringToNumber(h) ==
  CASE h.s = "#" -> Num(h.p)
    [] h.s = "#+2^32" -> Big(h.p)
    [] h.s = "" -> Num(0)
    [] OTHER -> NaN

ToNumber(h) ==
  CASE h.k = "number" -> h
    [] h.k = "undefined" -> NaN
    [] h.k = "null" -> Num(0)
    [] h.k = "boolean" -> Num(2 * h.p)
    [] h.k = "string" -> StringToNumber(h)
    [] h.k \in {"array", "date"} -> Num(0)
    [] h.k = "BooleanObject" -> Num(2 * h.p)
    [] h.k = "NumberObject" -> IF h.s = "nan" THEN NaN ELSE V("number", h.p, h.s)
    [] h.k = "StringObject" -> StringToNumber(h)
    [] OTHER -> NaN

ToUint32(h) ==
  LET n == ToNumber(h)
  IN CASE n.k = "nan" -> Num(0)
       [] n.s = "+2^32" -> Big(2 * Trunc(n.p))
       [] Trunc(n.p) < 0 -> Big(2 * Trunc(n.p))
       [] OTHER -> Num(2 * Trunc(n.p))

ToInt32(h) ==
  LET n == ToNumber(h)
  IN IF n.k = "nan" THEN Num(0) ELSE Num(2 * Trunc(n.p))

\* The OBJ_TO_* macros: a value already of the kind is cast, any other is
\* coerced (OBJECT, STRING, NUMBER) or cast unchecked (ARRAY, EXTERNAL, FUNCTION).
OBJ_TO_OBJECT(h) == IF IsObject(h) THEN h ELSE ToObject(h)
OBJ_TO_STRING(h) == IF IsObject(h) THEN h ELSE ToStringValue(h)
OBJ_TO_NUMBER(h) == IF IsNumber(h) THEN h ELSE ToNumber(h)

\* Whether shim_value_to(val, type, _) reads through val's handle.
ToDerefs(val, type) ==
  /\ val.type # type
  /\ type \in {"SHIM_TYPE_BOOL", "SHIM_TYPE_ARRAY", "SHIM_TYPE_OBJECT",
               "SHIM_TYPE_INTEGER", "SHIM_TYPE_INT32", "SHIM_TYPE_UINT32",
               "SHIM_TYPE_NUMBER", "SHIM_TYPE_EXTERNAL", "SHIM_TYPE_FUNCTION",
               "SHIM_TYPE_STRING"}

\* The handle each case of shim_value_to's switch stores into rval; the
\* cases that store nothing (DATE, BUFFER, UNKNOWN: the default) keep rval's.
ToHandle(h, type, old) ==
  CASE type = "SHIM_TYPE_UNDEFINED" -> Undefined
    [] type = "SHIM_TYPE_NULL" -> Null
    [] type = "SHIM_TYPE_BOOL" -> ToBoolean(h)
    [] type = "SHIM_TYPE_ARRAY" -> h
    [] type = "SHIM_TYPE_OBJECT" -> OBJ_TO_OBJECT(h)
    [] type = "SHIM_TYPE_INTEGER" -> OBJ_TO_NUMBER(h)
    [] type = "SHIM_TYPE_INT32" -> ToInt32(h)
    [] type = "SHIM_TYPE_UINT32" -> ToUint32(h)
    [] type = "SHIM_TYPE_NUMBER" -> OBJ_TO_NUMBER(h)
    [] type = "SHIM_TYPE_EXTERNAL" -> h
    [] type = "SHIM_TYPE_FUNCTION" -> h
    [] type = "SHIM_TYPE_STRING" -> OBJ_TO_STRING(h)
    [] OTHER -> old

\* The cases of the switch that end in "break" and so reach the tail of
\* shim_value_to; STRING has no break and falls into the default's return.
ToBreaks(type) ==
  type \in {"SHIM_TYPE_UNDEFINED", "SHIM_TYPE_NULL", "SHIM_TYPE_BOOL",
            "SHIM_TYPE_ARRAY", "SHIM_TYPE_OBJECT", "SHIM_TYPE_INTEGER",
            "SHIM_TYPE_INT32", "SHIM_TYPE_UINT32", "SHIM_TYPE_NUMBER",
            "SHIM_TYPE_EXTERNAL", "SHIM_TYPE_FUNCTION"}

\* Whether the tag alone answers the request, without the switch.
ToShortcut(val, type) == val.type = type

\* shim_value_to(ctx, val, type, rval): the result, what it leaves in rval
\* (handle and tag), and the exception the coercion threw (Empty: none).
shim_value_to(val, type, rval) ==
  IF ToShortcut(val, type)
  THEN [ret |-> TRUE, handle |-> val.handle, type |-> type, exc |-> Empty]
  ELSE [ret |-> ToBreaks(type),
        handle |-> ToHandle(val.handle, type, rval.handle),
        type |-> IF ToBreaks(type) THEN type ELSE rval.type,
        exc |-> IF type = "SHIM_TYPE_OBJECT" /\ ~IsObject(val.handle)
                   /\ ToObjectThrows(val.handle)
                THEN V("TypeError", 0, "Cannot convert undefined or null to object")
                ELSE Empty]

(***************************************************************************)
(* Tagged Values in memory.  A cell is a shim_val_t: the two static        *)
(* sentinels, the receiver and the arguments the trampoline allocates, and *)
(* one value the callback allocates itself.                                *)
(***************************************************************************)
shim__undefined == <<"shim__undefined", 0>>
shim__null == <<"shim__null", 0>>
SELF == <<"self", 0>>
TMP == <<"tmp", 0>>
ARGV(i) == <<"argv", i>>
NULLPTR == <<"NULL", 0>>

FrameCells(argc) == {SELF} \cup {ARGV(i) : i \in 0 .. argc - 1}
MaxFrame == IF MaxArgs > MaxUnpackArgs THEN MaxArgs ELSE MaxUnpackArgs
Cells == {shim__undefined, shim__null, TMP} \cup FrameCells(MaxFrame)

\* A shim_val_t that is usable: allocated and not freed, or static.
Live(c) == c \in Cells /\ heap[c].st \in {"live", "static"}

NoException == [caught |-> FALSE, exc |-> Empty]
\* A call of the callback as the model records it: the function, its result,
\* whether an exception was pending when it was made, whether the function
\* a call-out invoked raised, and the call recorded before it.
Call(op, r, tc, raised, before) ==
  [op |-> op, ret |-> r, pend |-> tc.caught, raised |-> raised, prev |-> before.op]
NoCall == [op |-> "enter", ret |-> FALSE, pend |-> FALSE, raised |-> FALSE, prev |-> "enter"]
NotExited == [called |-> FALSE, ok |-> FALSE, retLive |-> FALSE]
NotUnpacked == [called |-> FALSE, types |-> <<>>, ret |-> FALSE, dests |-> <<>>, exc |-> Empty]

\* shim_val_alloc: a malloc'ed shim_val_t holding the handle, tag unknown.
shim_val_alloc(h, type) == [handle |-> h, type |-> type, st |-> "live", frees |-> 0]

\* shim_value_release: free unless NULL or tagged null or undefined.
ReleaseSkips(val) == val.type \in {"SHIM_TYPE_NULL", "SHIM_TYPE_UNDEFINED"}

shim_value_release(val) ==
  IF ReleaseSkips(val)
  THEN val
  ELSE [val EXCEPT !.st = "freed", !.frees = @ + 1]

CallInit ==
  /\ pc = "idle"
  /\ argsIn = <<>>
  /\ heap = [c \in Cells |->
       CASE c = shim__undefined ->
              [handle |-> Empty, type |-> "SHIM_TYPE_UNDEFINED", st |-> "static", frees |-> 0]
         [] c = shim__null ->
              [handle |-> Empty, type |-> "SHIM_TYPE_NULL", st |-> "static", frees |-> 0]
         [] OTHER ->
              [handle |-> Empty, type |-> "SHIM_TYPE_UNKNOWN", st |-> "unalloc", frees |-> 0]]
  /\ ret = NULLPTR
  /\ rvalSet = FALSE
  /\ trycatch = NoException
  /\ host = [kind |-> "none", val |-> Empty]
  /\ unpacked = NotUnpacked
  /\ calls = 0
  /\ exited = NotExited
  /\ last = NoCall

\* (a variant that starts the return slot at the null sentinel)
InitialRetNull == shim__null

\* The slot Static starts sargs.ret at.
InitialRet == shim__undefined

\* Static, up to the call of the registered callback: SHIM_PROLOGUE, then
\* the frame (receiver and arguments wrapped with tag unknown).
StaticEnter(self, a) ==
  /\ pc = "idle"
  /\ pc' = "callback"
  /\ argsIn' = a
  /\ trycatch' = NoException
  /\ ret' = InitialRet
  /\ rvalSet' = FALSE
  /\ heap' = [c \in Cells |->
       IF c = SELF THEN shim_val_alloc(self, "SHIM_TYPE_UNKNOWN")
       ELSE IF c \in FrameCells(Len(a))
            THEN shim_val_alloc(a[c[2] + 1], "SHIM_TYPE_UNKNOWN")
            ELSE heap[c]]
  /\ calls' = 0
  /\ unpacked' = NotUnpacked
  /\ exited' = NotExited
  /\ last' = NoCall
  /\ UNCHANGED host
  /\ UNCHANGED <<isVars, weakVars, workVars, getVars, funcVars>>

\* The runtime value Static hands back for the return slot.
CollectResult(slot, h) ==
  IF slot # NULLPTR
  THEN CASE h[slot].type = "SHIM_TYPE_UNDEFINED" -> Undefined
         [] h[slot].type = "SHIM_TYPE_NULL" -> Null
         [] OTHER -> h[slot].handle
  ELSE Null

\* (a variant of Release Frame that releases nothing)
ReleaseFrameNone(h, argc) == h

\* Release Frame: shim_value_release of every argv[i] and of self.
ReleaseFrame(h, argc) ==
  [c \in Cells |-> IF c \in FrameCells(argc) THEN shim_value_release(h[c]) ELSE h[c]]

\* (a variant that reads the return slot after the frame was released)
HeapAtCollectLate(h, argc) == ReleaseFrame(h, argc)

\* The memory Collect Result reads the return slot from: as the callback
\* left it, before Release Frame.
HeapAtCollect(h, argc) == h

\* (a variant that returns the collected value whatever the scope holds)
StaticResultNoRethrow(tc, value) == [kind |-> "return", val |-> value]

\* Exit: what the host observes.  A caught exception is rethrown (and in
\* the builds before 0.11.3 returned as well, which the runtime discards
\* for the rethrown exception); otherwise the collected value is returned.
StaticResult(tc, value) ==
  IF tc.caught
  THEN [kind |-> "exception", val |-> tc.exc]
  ELSE [kind |-> "return", val |-> value]

\* Static, from the callback's return (ok: its result) to the end.  The
\* assert(ret != NULL) aborts a build with assertions when the collected
\* handle is empty; a build without them returns the empty handle.
StaticExit(ok) ==
  /\ pc = "callback"
  /\ LET read == HeapAtCollect(heap, Len(argsIn))
         value == CollectResult(ret, read)
     IN /\ exited' = [called |-> TRUE, ok |-> ok,
                      retLive |-> (ret = NULLPTR \/ read[ret].st \in {"live", "static"})]
        /\ \/ /\ pc' = "returned"
              /\ heap' = ReleaseFrame(heap, Len(argsIn))
              /\ host' = StaticResult(trycatch, value)
           \/ /\ value = Empty
              /\ pc' = "crashed"
              /\ UNCHANGED <<heap, host>>
  /\ UNCHANGED <<argsIn, ret, rvalSet, trycatch, unpacked, calls, last>>
  /\ UNCHANGED <<isVars, weakVars, workVars, getVars, funcVars>>

(***************************************************************************)
(* What the registered callback may call while it runs.                    *)
(***************************************************************************)
\* The shim_val_t pointers the callback holds: its frame, a value of its
\* own, and the two sentinels (shim_undefined(), shim_null()).
Held == {c \in Cells : Live(c)}

\* shim_value_is(val, type) on a held value.
CallIs(c, type) ==
  /\ pc = "callback"
  /\ calls < MaxCalls
  /\ calls' = calls + 1
  /\ c \in Held
  /\ ~(IsDerefs(heap[c], type) /\ heap[c].handle = Empty)
  /\ heap' = [heap EXCEPT ![c].type = shim_value_is(heap[c], type).type]
  /\ UNCHANGED <<pc, argsIn, ret, rvalSet, trycatch, host, unpacked>>
  /\ UNCHANGED <<exited, last, isVars, weakVars, workVars, getVars, funcVars>>

\* shim_value_to(ctx, val, type, rval) with rval a value of the callback's
\* own or the frame's return slot (args->ret).
CallTo(src, type, dst) ==
  /\ pc = "callback"
  /\ calls < MaxCalls
  /\ calls' = calls + 1
  /\ src \in Held
  /\ dst \in Held
  /\ dst \in {TMP, ret}
  /\ ~(ToDerefs(heap[src], type) /\ heap[src].handle = Empty)
  /\ LET r == shim_value_to(heap[src], type, heap[dst])
     IN /\ heap' = [heap EXCEPT ![dst].handle = r.handle, ![dst].type = r.type]
        /\ trycatch' = IF r.exc # Empty THEN [caught |-> TRUE, exc |-> r.exc] ELSE trycatch
  /\ UNCHANGED <<pc, argsIn, ret, rvalSet, host, unpacked>>
  /\ UNCHANGED <<exited, last, isVars, weakVars, workVars, getVars, funcVars>>

\* A type test or coercion that reads through an empty handle (a sentinel's,
\* or one a throwing coercion left): a NULL dereference, which ends the process.
NullDeref ==
  /\ pc = "callback"
  /\ calls < MaxCalls
  /\ calls' = calls + 1
  /\ \E c \in Held, type \in Types :
       /\ heap[c].handle = Empty
       /\ IsDerefs(heap[c], type) \/ ToDerefs(heap[c], type)
  /\ pc' = "crashed"
  /\ UNCHANGED <<argsIn, heap, ret, rvalSet, trycatch, host, unpacked>>
  /\ UNCHANGED <<exited, last, isVars, weakVars, workVars, getVars, funcVars>>

\* shim_number_new(ctx, d): a value of the callback's own.
shim_number_new(d) == shim_val_alloc(Num(2 * d), "SHIM_TYPE_UNKNOWN")

CallNew(d) ==
  /\ pc = "callback"
  /\ calls < MaxCalls
  /\ calls' = calls + 1
  /\ heap[TMP].st = "unalloc"
  /\ heap' = [heap EXCEPT ![TMP] = shim_number_new(d)]
  /\ UNCHANGED <<pc, argsIn, ret, rvalSet, trycatch, host, unpacked>>
  /\ UNCHANGED <<exited, last, isVars, weakVars, workVars, getVars, funcVars>>

\* shim_value_release(val) by the callback, on its own value (which it must
\* not have installed as the return value) or on a sentinel.  free() of a
\* static object is undefined: it ends the process here.
CallRelease(c) ==
  /\ pc = "callback"
  /\ calls < MaxCalls
  /\ calls' = calls + 1
  /\ c \in Held
  /\ c \in {TMP, shim__undefined, shim__null}
  /\ c # ret
  /\ IF heap[c].st = "static" /\ ~ReleaseSkips(heap[c])
     THEN pc' = "crashed" /\ heap' = heap
     ELSE pc' = pc /\ heap' = [heap EXCEPT ![c] = shim_value_release(heap[c])]
  /\ UNCHANGED <<argsIn, ret, rvalSet, trycatch, host, unpacked>>
  /\ UNCHANGED <<exited, last, isVars, weakVars, workVars, getVars, funcVars>>

\* shim_args_set_rval(ctx, args, val); val may be NULL.
CallSetRval(c) ==
  /\ pc = "callback"
  /\ calls < MaxCalls
  /\ calls' = calls + 1
  /\ c \in Held \cup {NULLPTR}
  /\ ret' = c
  /\ rvalSet' = TRUE
  /\ UNCHANGED <<pc, argsIn, heap, trycatch, host, unpacked>>
  /\ UNCHANGED <<exited, last, isVars, weakVars, workVars, getVars, funcVars>>

\* shim_format_error: the error object of the requested kind.
ErrKinds == {"Error", "TypeError", "RangeError"}
shim_format_error(kind, p, msg) == V(kind, p, msg)

\* ThrowException inside the context's TryCatch: the exception is what the
\* capture scope holds from then on.
ThrowException(exc) == [caught |-> TRUE, exc |-> exc]

\* shim_throw_error, shim_throw_type_error, shim_throw_range_error.
CallThrow(kind) ==
  /\ pc = "callback"
  /\ calls < MaxCalls
  /\ calls' = calls + 1
  /\ trycatch' = ThrowException(shim_format_error(kind, 0, "msg"))
  /\ last' = Call("shim_throw_error", FALSE, trycatch, FALSE, last)
  /\ UNCHANGED <<pc, argsIn, heap, ret, rvalSet, host, unpacked>>
  /\ UNCHANGED <<exited, isVars, weakVars, workVars, getVars, funcVars>>

\* (a variant of Reset that keeps what was caught)
ResetKeeps(tc) == tc

\* TryCatch::Reset.
Reset(tc) == NoException

\* shim_exception_clear: TryCatch::Reset.
CallClear ==
  /\ pc = "callback"
  /\ calls < MaxCalls
  /\ calls' = calls + 1
  /\ trycatch.caught
  /\ trycatch' = Reset(trycatch)
  /\ last' = Call("shim_exception_clear", FALSE, trycatch, FALSE, last)
  /\ UNCHANGED <<pc, argsIn, heap, ret, rvalSet, host, unpacked>>
  /\ UNCHANGED <<exited, isVars, weakVars, workVars, getVars, funcVars>>

\* shim_exception_pending: TryCatch::HasCaught.
shim_exception_pending(tc) == tc.caught

\* A query: it changes nothing, so the model makes it once after each
\* other call and does not count it.
CallPending ==
  /\ pc = "callback"
  /\ last.op # "shim_exception_pending"
  /\ UNCHANGED calls
  /\ last' = Call("shim_exception_pending", shim_exception_pending(trycatch), trycatch, FALSE, last)
  /\ UNCHANGED <<pc, argsIn, heap, ret, rvalSet, trycatch, host, unpacked>>
  /\ UNCHANGED <<exited, isVars, weakVars, workVars, getVars, funcVars>>

\* shim_exception_set(ctx, val): ThrowException of the value val wraps.
CallExceptionSet(c) ==
  /\ pc = "callback"
  /\ calls < MaxCalls
  /\ calls' = calls + 1
  /\ c \in Held
  /\ heap[c].handle # Empty
  /\ trycatch' = ThrowException(heap[c].handle)
  /\ last' = Call("shim_exception_set", FALSE, trycatch, FALSE, last)
  /\ UNCHANGED <<pc, argsIn, heap, ret, rvalSet, host, unpacked>>
  /\ UNCHANGED <<exited, isVars, weakVars, workVars, getVars, funcVars>>

\* shim_exception_get's result.
shim_exception_get(tc) == TRUE

\* shim_exception_get(ctx, rval): rval gets TryCatch::Exception(), the empty
\* handle when nothing was caught; rval's tag is left as it was.
CallExceptionGet(dst) ==
  /\ pc = "callback"
  /\ calls < MaxCalls
  /\ calls' = calls + 1
  /\ dst \in Held
  /\ heap' = [heap EXCEPT ![dst].handle = trycatch.exc]
  /\ last' = Call("shim_exception_get", shim_exception_get(trycatch), trycatch, FALSE, last)
  /\ UNCHANGED <<pc, argsIn, ret, rvalSet, trycatch, host, unpacked>>
  /\ UNCHANGED <<exited, isVars, weakVars, workVars, getVars, funcVars>>

\* The call-out operations; all six end in "return !tr->HasCaught()".
CallOuts == {"shim_func_call_sym", "shim_func_call_name", "shim_func_call_val",
             "shim_make_callback_sym", "shim_make_callback_val",
             "shim_make_callback_name"}

\* What the invoked function does to the capture scope: an exception it
\* raises is caught by the context's TryCatch; one caught before stays.
Invoke(tc, raised) ==
  IF raised THEN [caught |-> TRUE, exc |-> V("Error", 0, "raised")] ELSE tc

\* The call-outs' result: !tr->HasCaught() after the call.
CallOutResult(tc) == ~tc.caught

\* A call-out with rval a held value: rval gets what the function returned
\* (the empty handle when it raised); rval's tag is left as it was.
CallOut(op, raised, dst) ==
  /\ pc = "callback"
  /\ calls < MaxCalls
  /\ calls' = calls + 1
  /\ dst \in Held
  /\ trycatch' = Invoke(trycatch, raised)
  /\ heap' = [heap EXCEPT ![dst].handle = IF raised THEN Empty ELSE Str("r")]
  /\ last' = Call(op, CallOutResult(trycatch'), trycatch, raised, last)
  /\ UNCHANGED <<pc, argsIn, ret, rvalSet, host, unpacked>>
  /\ UNCHANGED <<exited, isVars, weakVars, workVars, getVars, funcVars>>

(***************************************************************************)
(* The argument unpacking engine.  A destination is [written, val]: val    *)
(* the raw value stored (a record naming its C type) or, for a string      *)
(* request, the handle stored into the shim_val_t the destination names.   *)
(***************************************************************************)
Unwritten == [written |-> FALSE, val |-> Empty]

\* (a variant in which every request stores a value)
ExtractableAll == Types

\* The requests whose case in shim_unpack_type's switch stores a value.
Extractable == {"SHIM_TYPE_BOOL", "SHIM_TYPE_INTEGER", "SHIM_TYPE_UINT32",
                "SHIM_TYPE_INT32", "SHIM_TYPE_NUMBER", "SHIM_TYPE_EXTERNAL",
                "SHIM_TYPE_BUFFER", "SHIM_TYPE_STRING"}

\* What each storing case writes: BooleanValue, IntegerValue, ...
Extract(h, type) ==
  CASE type = "SHIM_TYPE_BOOL" -> V("shim_bool_t", ToBoolean(h).p, "")
    [] type = "SHIM_TYPE_INTEGER" ->
         LET n == ToNumber(h)
         IN IF n.k = "nan" THEN V("int64_t", 0, "") ELSE V("int64_t", Trunc(n.p), n.s)
    [] type = "SHIM_TYPE_UINT32" -> V("uint32_t", ToUint32(h).p \div 2, ToUint32(h).s)
    [] type = "SHIM_TYPE_INT32" -> V("int32_t", ToInt32(h).p \div 2, "")
    [] type = "SHIM_TYPE_NUMBER" ->
         LET n == ToNumber(h)
         IN IF n.k = "nan" THEN V("double", 0, "nan") ELSE V("double", n.p, n.s)
    [] type = "SHIM_TYPE_EXTERNAL" -> V("void*", h.p, "external")
    [] type = "SHIM_TYPE_BUFFER" -> V("char*", h.p, "buffer")
    [] type = "SHIM_TYPE_STRING" -> OBJ_TO_STRING(h)
    [] OTHER -> Empty

\* shim_unpack_type(ctx, arg, type, rval): the result, the tag the type
\* test leaves on arg, and the value stored (when the result is TRUE).
shim_unpack_type(arg, type) ==
  LET is == shim_value_is(arg, type)
  IN IF ~is.ret
     THEN [ret |-> FALSE, type |-> is.type, val |-> Empty]
     ELSE IF type \in Extractable
          THEN [ret |-> TRUE, type |-> is.type, val |-> Extract(arg.handle, type)]
          ELSE [ret |-> FALSE, type |-> is.type, val |-> Empty]

\* (a variant that gives up without raising)
UnpackFailSilent(cur, ctype, h, dests) ==
  [ret |-> FALSE, heap |-> h, dests |-> dests, exc |-> Empty]

\* The body of shim_unpack's loop at index cur, on failure: the type error
\* is thrown and FALSE returned at once.
UnpackFail(cur, ctype, h, dests) ==
  [ret |-> FALSE, heap |-> h, dests |-> dests,
   exc |-> shim_format_error("TypeError", cur, ctype)]

\* Whether shim_unpack's loop runs its body at index cur: the current type
\* is not the SHIM_TYPE_UNKNOWN terminator and an argument is left.
UnpackContinues(cur, types, argc) == cur < Len(types) /\ cur < argc

\* shim_unpack's loop from index cur on, over the (type, destination) pairs
\* before the SHIM_TYPE_UNKNOWN terminator.
RECURSIVE UnpackFrom(_, _, _, _, _)
UnpackFrom(cur, types, argc, h, dests) ==
  IF ~UnpackContinues(cur, types, argc)
  THEN [ret |-> TRUE, heap |-> h, dests |-> dests, exc |-> Empty]
  ELSE LET ctype == types[cur + 1]
           r == shim_unpack_type(h[ARGV(cur)], ctype)
           h2 == [h EXCEPT ![ARGV(cur)].type = r.type]
       IN IF ~r.ret
          THEN UnpackFail(cur, ctype, h2, dests)
          ELSE UnpackFrom(cur + 1, types, argc, h2,
                          [dests EXCEPT ![cur + 1] = [written |-> TRUE, val |-> r.val]])

shim_unpack(types, argc, h) ==
  UnpackFrom(0, types, argc, h, [j \in 1 .. Len(types) |-> Unwritten])

\* shim_unpack(ctx, args, type, dest, ..., SHIM_TYPE_UNKNOWN) by the
\* callback, with fresh destinations: the one unpacking of its arguments.
CallUnpack(types) ==
  /\ pc = "callback"
  /\ ~unpacked.called
  /\ UNCHANGED calls
  /\ LET r == shim_unpack(types, Len(argsIn), heap)
     IN /\ heap' = r.heap
        /\ trycatch' = IF r.exc # Empty THEN ThrowException(r.exc) ELSE trycatch
        /\ unpacked' = [called |-> TRUE, types |-> types, ret |-> r.ret,
                        dests |-> r.dests, exc |-> r.exc]
  /\ UNCHANGED <<pc, argsIn, ret, rvalSet, host>>
  /\ UNCHANGED <<exited, last, isVars, weakVars, workVars, getVars, funcVars>>

\* The values and requests of the unpacking engine's specification.
UnpackValues == {Null, Num(84), Num(3), Str("s"), V("object", 0, "")}
UnpackTypes == {"SHIM_TYPE_NUMBER", "SHIM_TYPE_STRING", "SHIM_TYPE_OBJECT",
                "SHIM_TYPE_INT32", "SHIM_TYPE_BOOL", "SHIM_TYPE_NULL"}
TypeLists == UNION {[1 .. n -> UnpackTypes] : n \in 0 .. MaxPairs}

\* The values and types of the trampoline's own specification.
CallTypes == {"SHIM_TYPE_UNKNOWN", "SHIM_TYPE_UNDEFINED", "SHIM_TYPE_NULL",
              "SHIM_TYPE_NUMBER", "SHIM_TYPE_STRING", "SHIM_TYPE_OBJECT"}
CallValues == {Undefined, Null, Num(84), Str("s"), V("object", 0, "")}
Frames(values, max) == UNION {[1 .. n -> values] : n \in 0 .. max}

(***************************************************************************)
(* The type test and the coercion on one Tagged Value, call by call.       *)
(***************************************************************************)
\* The values a Tagged Value may wrap in these specifications.
IsValues == ArgValues \cup {V("date", 0, ""), V("external", 5, ""), V("buffer", 6, "")}

\* A value as shim_val_alloc leaves it: tag unknown.
FreshValues == {[handle |-> v, type |-> "SHIM_TYPE_UNKNOWN"] : v \in IsValues}

\* A value as earlier type tests may have left it: tag unknown, or a tag
\* its handle passed the runtime test for.
TaggedValues ==
  {tv \in [handle : IsValues, type : Types] :
     tv.type = "SHIM_TYPE_UNKNOWN" \/ RuntimeTest(tv.handle, tv.type)}

\* The destination a caller supplies: an empty string from shim_string_new.
shim_string_new == [handle |-> Str(""), type |-> "SHIM_TYPE_UNKNOWN"]

NotConverted ==
  [called |-> FALSE, val |-> shim_string_new, type |-> "SHIM_TYPE_UNKNOWN",
   ret |-> FALSE, rval |-> shim_string_new, exc |-> Empty]

ValueIdle ==
  /\ isv = [handle |-> Empty, type |-> "SHIM_TYPE_UNKNOWN"]
  /\ isLog = <<>>
  /\ converted = NotConverted

\* shim_value_is(isv, type), logged.
IsCall(type) ==
  /\ Len(isLog) < MaxIsCalls
  /\ LET r == shim_value_is(isv, type)
     IN /\ isv' = [isv EXCEPT !.type = r.type]
        /\ isLog' = Append(isLog, [type |-> type, ret |-> r.ret, tests |-> r.tests])
  /\ UNCHANGED converted
  /\ UNCHANGED <<callVars, weakVars, workVars, getVars, funcVars>>

\* shim_value_to(ctx, isv, type, rval) into the destination of the call
\* before (at first a fresh one), recorded.
ToCall(type) ==
  /\ LET r == shim_value_to(isv, type, converted.rval)
     IN converted' = [called |-> TRUE, val |-> isv, type |-> type, ret |-> r.ret,
                      rval |-> [handle |-> r.handle, type |-> r.type], exc |-> r.exc]
  /\ UNCHANGED <<isv, isLog>>
  /\ UNCHANGED <<callVars, weakVars, workVars, getVars, funcVars>>

(***************************************************************************)
(* Persistent references and weak finalization.  A reference is            *)
(* [st, baton]: st "none" (not created), "strong", "weak", "neardeath"     *)
(* (the host has run the weak callback) or "disposed"; baton the parameter *)
(* the host holds for the weak callback (0: none).                         *)
(***************************************************************************)
Refs == 1 .. MaxRefs
Datas == {"d1", "d2"}

WeakIdle ==
  /\ prefs = [p \in Refs |-> [st |-> "none", baton |-> 0]]
  /\ batons = <<>>
  /\ finalized = <<>>

\* shim_persistent_new: Persistent::New of the value, wrapped.
shim_persistent_new(p) ==
  /\ prefs[p].st = "none"
  /\ prefs' = [prefs EXCEPT ![p] = [st |-> "strong", baton |-> 0]]
  /\ UNCHANGED <<batons, finalized>>
  /\ UNCHANGED <<callVars, isVars, workVars, getVars, funcVars>>

\* shim_obj_make_weak: a new baton, handed to Persistent::MakeWeak, which
\* replaces whatever parameter the host held for the reference.
shim_obj_make_weak(p, data) ==
  /\ prefs[p].st \in {"strong", "weak"}
  /\ Len(batons) < MaxBatons
  /\ batons' = Append(batons, [st |-> "live", ref |-> p, data |-> data, cancelled |-> FALSE])
  /\ prefs' = [prefs EXCEPT ![p] = [st |-> "weak", baton |-> Len(batons) + 1]]
  /\ UNCHANGED finalized
  /\ UNCHANGED <<callVars, isVars, workVars, getVars, funcVars>>

\* (a variant of ClearWeak that leaves the reference weak)
ClearWeakKeeps(ref) == ref

\* Persistent::ClearWeak: the reference is strong again and the host holds
\* no callback parameter for it.
ClearWeak(ref) == [st |-> "strong", baton |-> 0]

\* shim_obj_clear_weak.  The baton of the cancelled arming stays allocated.
shim_obj_clear_weak(p) ==
  /\ prefs[p].st \in {"strong", "weak"}
  /\ prefs' = [prefs EXCEPT ![p] = ClearWeak(prefs[p])]
  /\ batons' = [b \in DOMAIN batons |->
       IF b = prefs[p].baton THEN [batons[b] EXCEPT !.cancelled = TRUE] ELSE batons[b]]
  /\ UNCHANGED finalized
  /\ UNCHANGED <<callVars, isVars, workVars, getVars, funcVars>>

\* The host finds a weak reference's object unreachable and runs
\* common_weak_cb with the parameter it holds: the user callback gets the
\* wrapped value and baton->data, and the baton is deleted.
common_weak_cb(p) ==
  /\ prefs[p].st = "weak"
  /\ LET b == prefs[p].baton
     IN /\ finalized' = Append(finalized, [ref |-> p, data |-> batons[b].data, baton |-> b])
        /\ batons' = [batons EXCEPT ![b].st = "freed"]
  /\ prefs' = [prefs EXCEPT ![p] = [st |-> "neardeath", baton |-> 0]]
  /\ UNCHANGED <<callVars, isVars, workVars, getVars, funcVars>>

\* shim_persistent_dispose: Persistent::Dispose and free of the wrapper.
shim_persistent_dispose(p) ==
  /\ prefs[p].st \in {"strong", "weak", "neardeath"}
  /\ prefs' = [prefs EXCEPT ![p] = [st |-> "disposed", baton |-> 0]]
  /\ UNCHANGED <<batons, finalized>>
  /\ UNCHANGED <<callVars, isVars, workVars, getVars, funcVars>>

(***************************************************************************)
(* The async work bridge.  A work item is [st, hint, rec, frees, workRuns, *)
(* workHint, workDone, afterRuns, afterHint]: st where the item is         *)
(* ("queued", "working": work_cb runs on a worker thread, "worked",        *)
(* "aftering": after_cb runs on the main thread, "done"), rec whether the  *)
(* shim_work_t and its uv_work_t are allocated, and what the two user      *)
(* callbacks were called with.                                             *)
(***************************************************************************)
Hints == {"h1", "h2"}
NoHint == "none"

WorkIdle == works = <<>>

\* shim_queue_work: a new request and work record, handed to uv_queue_work.
shim_queue_work(hint) ==
  /\ Len(works) < MaxWorks
  /\ works' = Append(works, [st |-> "queued", hint |-> hint, rec |-> "live", frees |-> 0,
                             workRuns |-> 0, workHint |-> NoHint, workDone |-> FALSE,
                             afterRuns |-> 0, afterHint |-> NoHint])
  /\ UNCHANGED <<callVars, isVars, weakVars, getVars, funcVars>>

\* before_work on a worker thread, up to the call of work_cb(work, work->hint).
before_work(i) ==
  /\ i \in DOMAIN works
  /\ works[i].st = "queued"
  /\ works' = [works EXCEPT ![i].st = "working", ![i].workRuns = @ + 1,
                            ![i].workHint = works[i].hint]
  /\ UNCHANGED <<callVars, isVars, weakVars, getVars, funcVars>>

\* (a variant in which the loop never learns that the work callback returned)
WorkFinishedLost(w) == [w EXCEPT !.workDone = TRUE]

\* The request once before_work has returned: the pool posts it to the loop.
WorkFinished(w) == [w EXCEPT !.st = "worked", !.workDone = TRUE]

\* work_cb returns, and with it before_work.
WorkReturn(i) ==
  /\ i \in DOMAIN works
  /\ works[i].st = "working"
  /\ works' = [works EXCEPT ![i] = WorkFinished(works[i])]
  /\ UNCHANGED <<callVars, isVars, weakVars, getVars, funcVars>>

\* (a variant in which the loop does not wait for the work callback)
AfterReadyEarly(w) == w.st \in {"working", "worked"}

\* uv_queue_work runs the after callback once the work callback returned.
AfterReady(w) == w.st = "worked"

\* before_after on the main thread, up to the call of
\* after_cb(&ctx, work, status, work->hint); the main thread runs one
\* callback at a time.
before_after(i) ==
  /\ i \in DOMAIN works
  /\ AfterReady(works[i])
  /\ \A j \in DOMAIN works : works[j].st # "aftering"
  /\ works' = [works EXCEPT ![i].st = "aftering", ![i].afterRuns = @ + 1,
                            ![i].afterHint = works[i].hint]
  /\ UNCHANGED <<callVars, isVars, weakVars, getVars, funcVars>>

\* (a variant of the end of before_after that deletes nothing)
DeleteWorkNever(w) == w

\* The end of before_after: delete work; delete req.
DeleteWork(w) == [w EXCEPT !.rec = "freed", !.frees = @ + 1]

\* after_cb returns and before_after deletes the records.
AfterReturn(i) ==
  /\ i \in DOMAIN works
  /\ works[i].st = "aftering"
  /\ works' = [works EXCEPT ![i] = [DeleteWork(works[i]) EXCEPT !.st = "done"]]
  /\ UNCHANGED <<callVars, isVars, weakVars, getVars, funcVars>>

(***************************************************************************)
(* Property reads.  An object is [props, hidden]: the keys (names, indices *)
(* or symbols alike) it has a property for, and whether hidden data is     *)
(* attached; the property at key k holds the number k.  got records one   *)
(* read, the first made.                                                   *)
(***************************************************************************)
Keys == 1 .. MaxKeys
Objects == [props : SUBSET Keys, hidden : BOOLEAN]

\* Object::Get: the property's value, undefined when there is none.
Get(obj, key) == IF key \in obj.props THEN Num(2 * key) ELSE Undefined

PropGetters == {"shim_obj_get_prop_name", "shim_obj_get_prop_id", "shim_obj_get_prop_sym"}

NotGot ==
  [called |-> FALSE, op |-> "none", obj |-> [props |-> {}, hidden |-> FALSE], key |-> 0,
   had |-> FALSE, ret |-> FALSE, rval |-> shim_string_new, crashed |-> FALSE]

GetIdle == got = NotGot

\* The getters' result.
GetResult(h) == TRUE

\* shim_obj_get_prop_name, shim_obj_get_prop_id, shim_obj_get_prop_sym:
\* rval gets the value read and the tag unknown.
shim_obj_get_prop(op, obj, key) ==
  /\ op \in PropGetters
  /\ ~got.called
  /\ got' = [called |-> TRUE, op |-> op, obj |-> obj, key |-> key, had |-> key \in obj.props,
             ret |-> GetResult(Get(obj, key)),
             rval |-> [handle |-> Get(obj, key), type |-> "SHIM_TYPE_UNKNOWN"],
             crashed |-> FALSE]
  /\ UNCHANGED <<callVars, isVars, weakVars, workVars, funcVars>>

\* shim_array_get: rval gets the element read; its tag is left as it was.
shim_array_get(obj, key, rval) ==
  /\ ~got.called
  /\ got' = [called |-> TRUE, op |-> "shim_array_get", obj |-> obj, key |-> key,
             had |-> key \in obj.props, ret |-> GetResult(Get(obj, key)),
             rval |-> [handle |-> Get(obj, key), type |-> rval.type],
             crashed |-> FALSE]
  /\ UNCHANGED <<callVars, isVars, weakVars, workVars, funcVars>>

(***************************************************************************)
(* shim_obj_set_funcs: registering a null terminated array of functions.   *)
(***************************************************************************)
MaxFuncs == 4

FuncNames == {"f", "g"}

\* One shim_fspec_t of the array, with the host's answer to setting it.
FuncSpecs == [name : FuncNames, sets : BOOLEAN]
FuncArrays == UNION {[1 .. n -> FuncSpecs] : n \in 0 .. MaxFuncs}

NotSetFuncs == [called |-> FALSE, funcs |-> <<>>, ret |-> FALSE, vals |-> <<>>, props |-> {}]

SetFuncsIdle == setf = NotSetFuncs

\* shim_func_new: a function wrapped in a fresh value.
shim_func_new(name) == shim_val_alloc(V("function", 0, name), "SHIM_TYPE_UNKNOWN")

\* shim_obj_set_prop_name on the receiver: the host's Set.
shim_obj_set_prop_name(cur) == cur.sets

\* The loop of shim_obj_set_funcs from entry i on; vals are the values it
\* allocated so far, props the names set on the receiver.
RECURSIVE SetFuncsFrom(_, _, _, _)
SetFuncsFrom(funcs, i, vals, props) ==
  IF i > Len(funcs)
  THEN [ret |-> TRUE, vals |-> vals, props |-> props]
  ELSE LET cur  == funcs[i]
           func == shim_func_new(cur.name)
       IN IF ~shim_obj_set_prop_name(cur)
          THEN [ret |-> FALSE, vals |-> Append(vals, func), props |-> props]
          ELSE SetFuncsFrom(funcs, i + 1, Append(vals, shim_value_release(func)),
                            props \cup {cur.name})

shim_obj_set_funcs(funcs) ==
  LET r == SetFuncsFrom(funcs, 1, <<>>, {})
  IN /\ ~setf.called
     /\ setf' = [called |-> TRUE, funcs |-> funcs, ret |-> r.ret, vals |-> r.vals,
                 props |-> r.props]
     /\ UNCHANGED <<callVars, isVars, weakVars, workVars, getVars>>



\* shim_obj_get_private: the External's value.  Without hidden data
\* GetHiddenValue yields an empty handle and the read through it is
\* undefined: the process ends, or the call returns with whatever was read.
shim_obj_get_private(obj, outcome) ==
  /\ ~got.called
  /\ got' = [called |-> TRUE, op |-> "shim_obj_get_private", obj |-> obj, key |-> 0,
             had |-> obj.hidden, ret |-> GetResult(Empty),
             rval |-> [handle |-> IF obj.hidden THEN V("void*", 9, "data") ELSE Empty,
                       type |-> "SHIM_TYPE_UNKNOWN"],
             crashed |-> ~obj.hidden /\ outcome = "crash"]
  /\ UNCHANGED <<callVars, isVars, weakVars, workVars, funcVars>>

Init ==
  /\ CallInit
  /\ ValueIdle
  /\ WeakIdle
  /\ WorkIdle
  /\ GetIdle
  /\ SetFuncsIdle

Next ==
  \/ \E self \in SelfValues, a \in Frames(CallValues, MaxArgs) : StaticEnter(self, a)
  \/ \E c \in Cells, type \in CallTypes : CallIs(c, type)
  \/ \E src \in Cells, type \in CallTypes, dst \in Cells : CallTo(src, type, dst)
  \/ NullDeref
  \/ CallNew(7)
  \/ \E c \in Cells : CallRelease(c)
  \/ \E c \in Cells \cup {NULLPTR} : CallSetRval(c)
  \/ \E kind \in ErrKinds : CallThrow(kind)
  \/ CallClear
  \/ \E ok \in BOOLEAN : StaticExit(ok)

Spec == Init /\ [][Next]_vars

NextUnpack ==
  \/ \E self \in SelfValues, a \in Frames(UnpackValues, MaxUnpackArgs) : StaticEnter(self, a)
  \/ \E types \in TypeLists : CallUnpack(types)
  \/ \E ok \in BOOLEAN : StaticExit(ok)

SpecUnpack == Init /\ [][NextUnpack]_vars

\* The unpacking engine on requests for structured types.
Structured == {"SHIM_TYPE_ARRAY", "SHIM_TYPE_OBJECT", "SHIM_TYPE_FUNCTION", "SHIM_TYPE_DATE"}
StructValues == {Num(84), V("array", 0, ""), V("object", 0, ""), V("function", 0, ""),
                 V("date", 0, "")}
StructTypeLists ==
  UNION {[1 .. n -> Structured \cup {"SHIM_TYPE_NUMBER"}] : n \in 0 .. MaxPairs}

NextUnpackStructured ==
  \/ \E self \in SelfValues, a \in Frames(StructValues, MaxUnpackArgs) : StaticEnter(self, a)
  \/ \E types \in StructTypeLists : CallUnpack(types)
  \/ \E ok \in BOOLEAN : StaticExit(ok)

SpecUnpackStructured == Init /\ [][NextUnpackStructured]_vars

InitIs ==
  /\ CallInit
  /\ isv \in FreshValues
  /\ isLog = <<>>
  /\ converted = NotConverted
  /\ WeakIdle
  /\ WorkIdle
  /\ GetIdle
  /\ SetFuncsIdle

NextIs == \E type \in Types : IsCall(type)

SpecIs == InitIs /\ [][NextIs]_vars

InitTo ==
  /\ CallInit
  /\ isv \in TaggedValues
  /\ isLog = <<>>
  /\ converted = NotConverted
  /\ WeakIdle
  /\ WorkIdle
  /\ GetIdle
  /\ SetFuncsIdle

NextTo == \E type \in Types : ToCall(type)

SpecTo == InitTo /\ [][NextTo]_vars

NextWeak ==
  \/ \E p \in Refs : shim_persistent_new(p)
  \/ \E p \in Refs, data \in Datas : shim_obj_make_weak(p, data)
  \/ \E p \in Refs : shim_obj_clear_weak(p)
  \/ \E p \in Refs : common_weak_cb(p)
  \/ \E p \in Refs : shim_persistent_dispose(p)

SpecWeak == Init /\ [][NextWeak]_vars

\* The exception bridge and the call-outs within one invocation.
ExcFrames == {<<>>, <<V("Error", 0, "e")>>}

NextExc ==
  \/ \E self \in SelfValues, a \in ExcFrames : StaticEnter(self, a)
  \/ \E kind \in ErrKinds : CallThrow(kind)
  \/ \E c \in FrameCells(MaxArgs) : CallExceptionSet(c)
  \/ CallClear
  \/ CallPending
  \/ \E dst \in FrameCells(MaxArgs) : CallExceptionGet(dst)
  \/ \E op \in CallOuts, raised \in BOOLEAN : CallOut(op, raised, SELF)
  \/ \E ok \in BOOLEAN : StaticExit(ok)

SpecExc == Init /\ [][NextExc]_vars

NextGet ==
  \/ \E op \in PropGetters, obj \in Objects, key \in Keys : shim_obj_get_prop(op, obj, key)
  \/ \E obj \in Objects, key \in Keys, rval \in TaggedValues : shim_array_get(obj, key, rval)
  \/ \E obj \in Objects, outcome \in {"crash", "return"} : shim_obj_get_private(obj, outcome)

SpecGet == Init /\ [][NextGet]_vars

NextFuncs == \E funcs \in FuncArrays : shim_obj_set_funcs(funcs)

SpecFuncs == Init /\ [][NextFuncs]_vars

NextWork ==
  \/ \E hint \in Hints : shim_queue_work(hint)
  \/ \E i \in 1 .. MaxWorks : before_work(i)
  \/ \E i \in 1 .. MaxWorks : WorkReturn(i)
  \/ \E i \in 1 .. MaxWorks : before_after(i)
  \/ \E i \in 1 .. MaxWorks : AfterReturn(i)

SpecWork == Init /\ [][NextWork]_vars

\* The worker pool runs every queued work callback, a work callback
\* returns, and the event loop runs every pending after callback.
WorkFairness ==
  \A i \in 1 .. MaxWorks :
    /\ WF_vars(before_work(i))
    /\ WF_vars(WorkReturn(i))
    /\ WF_vars(before_after(i))
    /\ WF_vars(AfterReturn(i))

SpecWorkFair == Init /\ [][NextWork]_vars /\ WorkFairness

(***************************************************************************)
(* Properties of the trampoline (under Spec).                              *)
(***************************************************************************)
Returned == pc = "returned"

\* C1: when the trampoline has returned, the receiver and every argument
\* Tagged Value it allocated have each been freed exactly once, whatever
\* the callback did with them and whatever it returned or raised.
FrameFreedOnce ==
  Returned =>
    \A c \in FrameCells(Len(argsIn)) : heap[c].st = "freed" /\ heap[c].frees = 1

\* C2: at the trampoline's exit the host observes the exception exactly when
\* the capture scope holds one, also when the callback wrote a return value;
\* the collected value reaches the host only when no exception is held.
ExceptionWins ==
  Returned =>
    /\ trycatch.caught => host = [kind |-> "exception", val |-> trycatch.exc]
    /\ host.kind = "return" => ~trycatch.caught /\ host.val = CollectResult(ret, heap)

ExceptionWinsWitness ==
  /\ Returned
  /\ rvalSet
  /\ ret = ARGV(0)
  /\ trycatch.caught
  /\ host = [kind |-> "exception", val |-> V("RangeError", 0, "msg")]

SentinelsIntact ==
  /\ heap[shim__undefined].type = "SHIM_TYPE_UNDEFINED"
  /\ heap[shim__undefined].handle = Empty
  /\ heap[shim__null].type = "SHIM_TYPE_NULL"
  /\ heap[shim__null].handle = Empty

(***************************************************************************)
(* Properties of the unpacking engine (under SpecUnpack).                  *)
(***************************************************************************)
\* The pair at index i (from 0) cannot be satisfied by the argument there:
\* the value is not of the requested type, or the type is not one that
\* unpacks into raw storage.
SlotFails(i) ==
  ~(RuntimeTest(argsIn[i + 1], unpacked.types[i + 1]) /\ unpacked.types[i + 1] \in Extractable)

UnpackLimit ==
  IF Len(unpacked.types) < Len(argsIn) THEN Len(unpacked.types) ELSE Len(argsIn)

FirstFail(i) == i < UnpackLimit /\ SlotFails(i) /\ \A j \in 0 .. i - 1 : ~SlotFails(j)

\* C6: shim_unpack works in positional order and stops at the first index i
\* whose argument cannot satisfy the request: it returns FALSE with a type
\* error naming i and the requested type raised, the destinations after i
\* are unwritten and those before i hold the values unpacked.
UnpackShortCircuit ==
  unpacked.called =>
    \A i \in 0 .. UnpackLimit - 1 :
      FirstFail(i) =>
        /\ ~unpacked.ret
        /\ unpacked.exc = V("TypeError", i, unpacked.types[i + 1])
        /\ trycatch = [caught |-> TRUE, exc |-> unpacked.exc]
        /\ \A j \in i + 1 .. Len(unpacked.types) - 1 : ~unpacked.dests[j + 1].written
        /\ \A j \in 0 .. i - 1 :
             unpacked.dests[j + 1] =
               [written |-> TRUE, val |-> Extract(argsIn[j + 1], unpacked.types[j + 1])]

UnpackShortCircuitWitness ==
  /\ unpacked.called
  /\ unpacked.types = <<"SHIM_TYPE_NUMBER", "SHIM_TYPE_STRING">>
  /\ argsIn = <<Num(84), V("object", 0, "")>>
  /\ FirstFail(1)
  /\ ~unpacked.ret
  /\ trycatch.exc = V("TypeError", 1, "SHIM_TYPE_STRING")
  /\ unpacked.dests = <<[written |-> TRUE, val |-> V("double", 84, "")], Unwritten>>

\* C7: when shim_unpack returns TRUE every destination supplied before the
\* terminator has been written, also for a frame with fewer arguments than
\* pairs.
UnpackTrueWritesAll ==
  (unpacked.called /\ unpacked.ret) =>
    \A j \in 1 .. Len(unpacked.types) : unpacked.dests[j].written

(***************************************************************************)
(* Properties of the type test (under SpecIs).                             *)
(***************************************************************************)
\* Two consecutive shim_value_is calls on the value with the same type.
Repeated(i) == i \in 1 .. Len(isLog) - 1 /\ isLog[i].type = isLog[i + 1].type

\* C4 as stated: two consecutive calls is(v, T) agree and together make the
\* runtime type test at most once, whatever the first one answered.
IsTestedAtMostOnce ==
  \A i \in 1 .. Len(isLog) - 1 :
    Repeated(i) =>
      /\ isLog[i].ret = isLog[i + 1].ret
      /\ isLog[i].tests + isLog[i + 1].tests <= 1

\* C4 as amended: two consecutive calls is(v, T) agree; when the first
\* answered TRUE the tag is cached and the two make the runtime type test
\* at most once; when it answered FALSE nothing is cached and the second
\* call makes the runtime test again (no test is ever made for unknown).
IsMemoizedOnSuccess ==
  \A i \in 1 .. Len(isLog) - 1 :
    Repeated(i) =>
      /\ isLog[i].ret = isLog[i + 1].ret
      /\ isLog[i].ret =>
           isLog[i + 1].tests = 0 /\ isLog[i].tests + isLog[i + 1].tests <= 1
      /\ ~isLog[i].ret =>
           isLog[i + 1].tests = (IF isLog[i].type = "SHIM_TYPE_UNKNOWN" THEN 0 ELSE 1)

IsMemoizedOnSuccessWitness ==
  /\ isv = [handle |-> Str("s"), type |-> "SHIM_TYPE_STRING"]
  /\ isLog = <<[type |-> "SHIM_TYPE_STRING", ret |-> TRUE, tests |-> 1],
               [type |-> "SHIM_TYPE_STRING", ret |-> TRUE, tests |-> 0]>>

(***************************************************************************)
(* Properties of the coercion (under SpecTo).                              *)
(***************************************************************************)
\* The target types shim_value_to's switch has a coercion for.
Coercible == {"SHIM_TYPE_UNDEFINED", "SHIM_TYPE_NULL", "SHIM_TYPE_BOOL",
              "SHIM_TYPE_ARRAY", "SHIM_TYPE_OBJECT", "SHIM_TYPE_INTEGER",
              "SHIM_TYPE_INT32", "SHIM_TYPE_UINT32", "SHIM_TYPE_NUMBER",
              "SHIM_TYPE_EXTERNAL", "SHIM_TYPE_FUNCTION", "SHIM_TYPE_STRING"}

\* C8: shim_value_to to a type with a defined coercion, on a value not yet
\* tagged with it, returns TRUE and leaves rval tagged with the type; for
\* string, rval holds the coerced string.
ConvertSucceeds ==
  (converted.called /\ converted.type \in Coercible
     /\ converted.val.type # converted.type) =>
    /\ converted.ret
    /\ converted.rval.type = converted.type
    /\ converted.type = "SHIM_TYPE_STRING" => IsString(converted.rval.handle)

\* C9: shim_value_to to the type unknown returns FALSE for every source
\* value, also one whose own tag is unknown.
ConvertToUnknownFails ==
  (converted.called /\ converted.type = "SHIM_TYPE_UNKNOWN") => ~converted.ret

(***************************************************************************)
(* Properties of weak finalization (under SpecWeak).                       *)
(***************************************************************************)
\* The user callback invocations made for the arming with baton b.
FiredFor(b) == {i \in DOMAIN finalized : finalized[i].baton = b}
FiredOn(p) == {i \in DOMAIN finalized : finalized[i].ref = p}

\* C10: a reference armed with shim_obj_make_weak whose object the host has
\* found unreachable has had the finalize callback invoked exactly once,
\* with the data given at the arming in force; no arming is ever fired
\* twice, and an arming cancelled by shim_obj_clear_weak is never fired.
WeakFinalizeOnce ==
  /\ \A p \in Refs :
       /\ prefs[p].st = "neardeath" => Cardinality(FiredOn(p)) = 1
       /\ prefs[p].st \in {"none", "strong", "weak"} => FiredOn(p) = {}
       /\ Cardinality(FiredOn(p)) <= 1
  /\ \A i \in DOMAIN finalized :
       /\ finalized[i].baton \in DOMAIN batons
       /\ finalized[i].data = batons[finalized[i].baton].data
       /\ finalized[i].ref = batons[finalized[i].baton].ref
       /\ \A b \in DOMAIN batons :
            (batons[b].ref = finalized[i].ref /\ b > finalized[i].baton) =>
              batons[b].st = "live" /\ FiredFor(b) = {}
  /\ \A b \in DOMAIN batons :
       /\ Cardinality(FiredFor(b)) <= 1
       /\ batons[b].cancelled => FiredFor(b) = {}

WeakFinalizeOnceWitness ==
  /\ Len(batons) = 2
  /\ batons[1] = [st |-> "live", ref |-> 1, data |-> "d1", cancelled |-> TRUE]
  /\ batons[2] = [st |-> "freed", ref |-> 1, data |-> "d2", cancelled |-> FALSE]
  /\ prefs[1].st = "neardeath"
  /\ finalized = <<[ref |-> 1, data |-> "d2", baton |-> 2]>>

\* C11: every baton shim_obj_make_weak allocated is freed at most once, and
\* once its reference has been finalized or disposed no baton allocated for
\* that reference is still live.
BatonsReclaimed ==
  \A b \in DOMAIN batons :
    prefs[batons[b].ref].st \in {"neardeath", "disposed"} => batons[b].st = "freed"

(***************************************************************************)
(* Properties of the async work bridge (under SpecWork, SpecWorkFair).     *)
(***************************************************************************)
\* C12: for every queued item the work callback is invoked at most once and
\* the after callback at most once; the after callback begins only when the
\* work callback was invoked once and has returned, and gets the hint the
\* work callback got, the one given to shim_queue_work.
WorkThenAfter ==
  \A i \in DOMAIN works :
    LET w == works[i]
    IN /\ w.workRuns <= 1
       /\ w.afterRuns <= 1
       /\ w.st # "queued" => w.workRuns = 1 /\ w.workHint = w.hint
       /\ w.st \in {"aftering", "done"} => w.afterRuns = 1
       /\ w.afterRuns = 1 =>
            w.workRuns = 1 /\ w.workDone /\ w.afterHint = w.workHint /\ w.afterHint = w.hint

WorkThenAfterWitness ==
  /\ Len(works) = 2
  /\ works[1].st = "working"
  /\ works[1].hint = "h1"
  /\ works[2].st = "done"
  /\ works[2].workHint = "h2"
  /\ works[2].afterHint = "h2"
  /\ works[2].workRuns = 1
  /\ works[2].afterRuns = 1

\* C13: the records of a work item are allocated from shim_queue_work until
\* its after callback has returned, through both callbacks, and are freed
\* exactly once from then on.
WorkRecordFreedOnce ==
  \A i \in DOMAIN works :
    /\ works[i].st # "done" => works[i].rec = "live" /\ works[i].frees = 0
    /\ works[i].st = "done" => works[i].rec = "freed" /\ works[i].frees = 1

WorkRecordFreedOnceWitness ==
  /\ Len(works) = 2
  /\ works[1].st = "done"
  /\ works[1].rec = "freed"
  /\ works[1].frees = 1
  /\ works[2].st = "aftering"
  /\ works[2].rec = "live"

\* C14: no step removes a queued item or takes one back to an earlier
\* phase, and under fair scheduling every queued item eventually has had
\* its work callback and then its after callback run.
WorkDone(i) ==
  /\ i \in DOMAIN works
  /\ works[i].st = "done"
  /\ works[i].workRuns = 1
  /\ works[i].afterRuns = 1

WorkNeverCancelled ==
  \A i \in DOMAIN works :
    /\ i \in DOMAIN works'
    /\ works'[i].hint = works[i].hint
    /\ works'[i].workRuns >= works[i].workRuns
    /\ works'[i].afterRuns >= works[i].afterRuns
    /\ works[i].st = "done" => works'[i].st = "done"

WorkCompletes ==
  /\ [][WorkNeverCancelled]_vars
  /\ \A i \in 1 .. MaxWorks : (i \in DOMAIN works) ~> WorkDone(i)

WorkCompletesWitness == Len(works) = MaxWorks /\ \A i \in 1 .. MaxWorks : WorkDone(i)

(***************************************************************************)
(* Further properties of the trampoline (under Spec).                      *)
(***************************************************************************)
\* shim_value_release has been applied to the frame value c: it is freed,
\* once, unless its tag made the release skip it.
Released(c) ==
  \/ heap[c].st = "freed" /\ heap[c].frees = 1
  \/ heap[c].st = "live" /\ ReleaseSkips(heap[c])

\* C15: when the callback returned FALSE and the capture scope holds no
\* exception, the host observes a normal return of the value the return
\* slot denotes, and the receiver and every argument have been released.
FailureIsSilent ==
  (Returned /\ exited.called /\ ~exited.ok /\ ~trycatch.caught) =>
    /\ host = [kind |-> "return", val |-> CollectResult(ret, heap)]
    /\ \A c \in FrameCells(Len(argsIn)) : Released(c)

FailureIsSilentWitness ==
  /\ Returned
  /\ exited.called
  /\ ~exited.ok
  /\ ~trycatch.caught
  /\ rvalSet
  /\ ret = TMP
  /\ argsIn = <<Str("s")>>
  /\ host = [kind |-> "return", val |-> Num(14)]
  /\ heap[SELF].st = "freed"
  /\ heap[ARGV(0)].st = "freed"

\* C16 as stated: a frame value installed in the return slot is not freed
\* by the trampoline, and the slot was read while its value was live.
ReturnSlotKept ==
  (Returned /\ ret \in FrameCells(Len(argsIn))) =>
    heap[ret].st # "freed" /\ exited.retLive

\* C16 as amended: the trampoline reads the return slot before Release
\* Frame, while the Tagged Value in it is live, and hands the host what it
\* read; Release Frame then releases every frame value, the one installed
\* in the return slot included; an installed value that is not part of the
\* frame is not released by the trampoline at all.
ReturnSlotReadLive ==
  Returned =>
    /\ exited.retLive
    /\ host.kind = "return" => host.val = CollectResult(ret, heap)
    /\ ret \in FrameCells(Len(argsIn)) => Released(ret)
    /\ ret \notin FrameCells(Len(argsIn)) \cup {NULLPTR} =>
         heap[ret].st \in {"live", "static"} /\ heap[ret].frees = 0

ReturnSlotReadLiveWitness ==
  /\ Returned
  /\ rvalSet
  /\ ret = ARGV(0)
  /\ argsIn = <<Num(84)>>
  /\ heap[ARGV(0)].st = "freed"
  /\ heap[ARGV(0)].frees = 1
  /\ exited.retLive
  /\ host = [kind |-> "return", val |-> Num(84)]

(***************************************************************************)
(* Properties of the exception bridge and the call-outs (under SpecExc).   *)
(***************************************************************************)
\* C17: shim_exception_get returns TRUE exactly when an exception was
\* pending in the capture scope.
ExceptionGetReportsPending ==
  last.op = "shim_exception_get" => (last.ret <=> last.pend)

\* C18: a call-out returns TRUE exactly when the function it invoked did
\* not raise; when it raised, the exception is pending after the call and,
\* if the callback makes no further call, is what the host observes.
CallOutReportsRaise ==
  last.op \in CallOuts =>
    /\ last.ret <=> ~last.raised
    /\ (last.raised /\ pc \in {"callback", "returned"}) => trycatch.caught
    /\ (last.raised /\ Returned) => host = [kind |-> "exception", val |-> trycatch.exc]

GetReportsPresence ==
  (got.called /\ ~got.crashed) => (got.ret <=> got.had)

(***************************************************************************)
(* Structured requests (under SpecUnpackStructured).                       *)
(***************************************************************************)
\* C21: a shim_unpack request for a structured type (array, object,
\* function, date) at a position that has an argument fails, whatever the
\* argument is: shim_unpack returns FALSE with a type error raised and the
\* request's destination unwritten; when no earlier pair failed the error
\* names that position and type.
StructuredNeverUnpacks ==
  unpacked.called =>
    \A i \in 0 .. UnpackLimit - 1 :
      unpacked.types[i + 1] \in Structured =>
        /\ ~unpacked.ret
        /\ trycatch.caught
        /\ trycatch.exc = unpacked.exc
        /\ unpacked.exc.k = "TypeError"
        /\ ~unpacked.dests[i + 1].written
        /\ (\A j \in 0 .. i - 1 : ~SlotFails(j)) =>
             unpacked.exc = V("TypeError", i, unpacked.types[i + 1])

StructuredNeverUnpacksWitness ==
  /\ unpacked.called
  /\ unpacked.types = <<"SHIM_TYPE_NUMBER", "SHIM_TYPE_ARRAY">>
  /\ argsIn = <<Num(84), V("array", 0, "")>>
  /\ ~unpacked.ret
  /\ trycatch = [caught |-> TRUE, exc |-> V("TypeError", 1, "SHIM_TYPE_ARRAY")]
  /\ unpacked.dests = <<[written |-> TRUE, val |-> V("double", 84, "")], Unwritten>>
  /\ heap[ARGV(1)].type = "SHIM_TYPE_ARRAY"

(***************************************************************************)
(* Tag and handle of a result value (under SpecGet).                       *)
(***************************************************************************)
\* C22: the result value of a read, when its tag is not unknown, holds a
\* handle that passes the runtime test for that tag.
TagDescribesHandle ==
  (got.called /\ ~got.crashed /\ got.rval.type # "SHIM_TYPE_UNKNOWN") =>
    RuntimeTest(got.rval.handle, got.rval.type)

(***************************************************************************)
(* Registering functions (under SpecFuncs).                                *)
(***************************************************************************)
\* The entries before the first one the host refuses to set.
FirstFailing(funcs) ==
  IF \E i \in DOMAIN funcs : ~funcs[i].sets
  THEN CHOOSE i \in DOMAIN funcs : ~funcs[i].sets /\ \A j \in 1 .. i - 1 : funcs[j].sets
  ELSE Len(funcs) + 1

\* C23: shim_obj_set_funcs returns TRUE exactly when every entry was set,
\* registers the entries before the first failing one and no later one, and
\* on both outcomes has released every function value it allocated.
SetFuncsReleasesAll ==
  setf.called =>
    /\ setf.ret = (\A i \in DOMAIN setf.funcs : setf.funcs[i].sets)
    /\ setf.props = {setf.funcs[j].name : j \in 1 .. FirstFailing(setf.funcs) - 1}
    /\ \A i \in DOMAIN setf.vals : setf.vals[i].st = "freed" /\ setf.vals[i].frees = 1

====
